---- MODULE Spec2Model ----
(***************************************************************************)
(* rawrscope: the multi-rate mixing engine (Submission, resamplers, Mixer), *)
(* the Player that drives a Mixer from the audio callback, the Scope with   *)
(* its mailbox, centering and output window, the frame tick of the event    *)
(* loop, calculate_offset of ZeroCrossing and NoCentering, the working      *)
(* buffers of FundamentalPhase, and the AsyncSwapchain of the event loop.   *)
(*                                                                          *)
(* Samples are integers.  An output sample of a Mixer is the exact rational *)
(* num/den with den the Mixer's sample rate, so that linear interpolation   *)
(* between two source frames is computed without rounding.  Durations are   *)
(* whole milliseconds, so that rate * duration is exact as well.            *)
(***************************************************************************)
EXTENDS Integers, Sequences, FiniteSets, TLC

VARIABLES
    \* ---- audio/mixer.rs ----
    sub,                 \* the Submission under construction (rate -> MixedStream)
    lastAdd,             \* input and prior buffer of the last Submission::add on an existing rate
    chan,                \* Mixer.submission_queue: the unbounded channel of Submissions
    sample_rate,         \* Mixer.sample_rate
    target_sample_rate,  \* Mixer.target_sample_rate: {} is None, {r} is Some(r)
    resamplers,          \* Mixer.resamplers (rate -> resampler)
    panicked,            \* the thread calling Mixer::next has panicked
    mixerLog,            \* what the last Mixer::next logged (created / missing resamplers)
    consumed,            \* the Submissions received by Mixer::next, in order
    outsSince,           \* the output samples since (and with) the last receiving call
    adds, pulls,         \* counters that bound the run
    \* ---- audio/playback.rs ----
    channels,            \* the submission channels made by Player: id -> [zero, q]
    submission_queue,    \* Player.submission_queue: the channel its Sender feeds
    mixer_stream,        \* Player.mixer_stream, the content of the mutex
    lock,                \* holder of the mixer_stream mutex
    audioPc,             \* audio thread: "idle", "fill" (in the callback), "recv"
    remaining,           \* output buffer elements the callback has still to fill
    heldStream,          \* the stream the callback found when it took the lock
    framePc,             \* frame thread: "idle", "send", "rebuild"
    pendingStream,       \* rebuild_mixer: the stream built and not yet installed
    sending,             \* submit: the Submission of a send that has not returned
    received,            \* which stream received which Submission
    rebuilds, submits, callbacks,  \* counters
    \* ---- scope.rs ----
    slot,                \* SubmissionSlot.inner of the scope's Mixer: {} is None
    scopeMixed,          \* the Submissions the scope's Mixer took, in order
    overwritten,         \* the Submissions replaced in the slot before being taken
    sinceProcess,        \* number of submit calls since the last process()
    scopePanicked,       \* process() panicked
    scopeSubmits,        \* counter, the next Submission's number
    slotAudio,           \* the samples routed into the Submission of the slot
    scope_sample_rate,   \* sample_rate() of the scope's Mixer
    window_size,         \* Scope.window_size, in milliseconds
    trigger_width,       \* Scope.trigger_width, in milliseconds
    centering,           \* Scope.centering: [kind, snap_to_crossings]
    audio,               \* Scope.audio
    center,              \* the index Centering::center returned to the last process(), -1 if none
    center_offset,       \* Scope.center_offset
    outLen,              \* length of the slice the last output() returned, -1 before
    \* ---- commands/app.rs: the frame tick ----
    loaded_sources,      \* the loaded sources of state.audio_sources, in order
    frame,               \* state.playback.frame
    playing,             \* state.playback.playing
    reprocess,           \* the local reprocess of _run
    multithreaded_centering,  \* state.debug.multithreaded_centering
    tickPc,              \* position of the event loop thread inside the tick handler
    sources_exhausted,   \* the local of the running tick
    todoSources,         \* loaded sources the running tick has still to read
    master_sub,          \* sub: the sources added to the master Submission of the tick
    scope_submissions,   \* scope name -> the sources added to that scope's Submission
    mailboxes,           \* scope name -> the mailbox of that scope: {} is None
    submittedIn,         \* scopes that received a Submission in the running tick
    processedIn,         \* scopes whose process() returned in the running tick
    readIn,              \* scopes whose output() the renderer read in the running tick
    failedReads,         \* sources whose chunk_at returned Err in the running tick
    warned,              \* connection targets logged as unknown
    masterSubmits,       \* the master Submissions handed to Player::submit, in order
    tickPanicked,        \* the event loop thread has panicked
    ticks, uiEvents,     \* counters
    \* ---- scope/centering/zero_crossing.rs, none.rs: one call of calculate_offset ----
    call_data,           \* the argument data
    call_sample_rate,    \* the argument sample_rate
    window_len,          \* the argument window_len
    zc_trigger_width,    \* ZeroCrossing.trigger_width, in milliseconds
    zcOffset,            \* what ZeroCrossing::calculate_offset returned
    ncOffset,            \* what NoCentering::calculate_offset returned
    \* ---- scope/centering/fundamental_phase.rs: one FundamentalPhase ----
    planners,            \* FundamentalPhase.planners: the FFT lengths each planner has cached
    buffers,             \* FundamentalPhase.buffers: the length of each working buffer
    last_tau,            \* FundamentalPhase.last_tau
    phaseFn,             \* what the arithmetic of center gives: arguments -> [tau, center]
    phaseCalls,          \* the calls of center so far: arguments and returned index
    phasePanicked,       \* a call of center panicked
    \* ---- commands/app.rs: AsyncSwapchain ----
    swapchain,           \* AsyncSwapchain.swapchain: [gen, chain], chain names the wgpu::SwapChain
    swapLock,            \* holder of the swapchain mutex
    image_requested,     \* the bool of cvar_pair
    swapPc,              \* swapchain thread: "wait", "acquire", "send", "park"
    acquired,            \* the (gen, image) the swapchain thread has acquired and not sent
    userEvents,          \* the UserEvents sent to the event loop and not handled
    parkToken,           \* the unpark token of the swapchain thread
    loopPc,              \* event loop thread: "idle", "replace" (inside replace_swapchain)
    rendered,            \* the frames rendered to, with the swapchain at that time
    forgotten,           \* the frames given up unrendered
    replaces, requests   \* counters

mixerVars == <<sub, lastAdd, chan, sample_rate, target_sample_rate, resamplers,
               panicked, mixerLog, consumed, outsSince, adds, pulls>>

playerVars == <<channels, submission_queue, mixer_stream, lock, audioPc,
                remaining, heldStream, framePc, pendingStream, sending, received,
                rebuilds, submits, callbacks>>

scopeVars == <<slot, scopeMixed, overwritten, sinceProcess, scopePanicked,
               scopeSubmits, slotAudio, scope_sample_rate, window_size,
               trigger_width, centering, audio, center, center_offset, outLen>>

tickVars == <<loaded_sources, frame, playing, reprocess, multithreaded_centering, tickPc,
              sources_exhausted, todoSources, master_sub, scope_submissions,
              mailboxes, submittedIn, processedIn, readIn, failedReads, warned,
              masterSubmits, tickPanicked, ticks, uiEvents>>

callVars == <<call_data, call_sample_rate, window_len, zc_trigger_width, zcOffset,
              ncOffset>>

phaseVars == <<planners, buffers, last_tau, phaseFn, phaseCalls, phasePanicked>>

swapVars == <<swapchain, swapLock, image_requested, swapPc, acquired, userEvents,
              parkToken, loopPc, rendered, forgotten, replaces, requests>>

vars == <<mixerVars, playerVars, scopeVars, tickVars, callVars, phaseVars, swapVars>>

notMixerVars == <<playerVars, scopeVars, tickVars, callVars, phaseVars, swapVars>>

notPlayerVars == <<mixerVars, scopeVars, tickVars, callVars, phaseVars, swapVars>>

notScopeVars == <<mixerVars, playerVars, tickVars, callVars, phaseVars, swapVars>>

notTickVars == <<mixerVars, playerVars, scopeVars, callVars, phaseVars, swapVars>>

notCallVars == <<mixerVars, playerVars, scopeVars, tickVars, phaseVars, swapVars>>

notPhaseVars == <<mixerVars, playerVars, scopeVars, tickVars, callVars, swapVars>>

notSwapVars == <<mixerVars, playerVars, scopeVars, tickVars, callVars, phaseVars>>

----------------------------------------------------------------------------
(* Bounds and inputs *)

MaxAdds == 3
MaxQueue == 2
MaxPulls == 2

DefaultRate == 44100

Rates == {22050, 48000}

SampleVecs == { <<1>>, <<0, 0>>, <<1, 2>> }

EmptyMap == [r \in {} |-> 0]

Last(s) == s[Len(s)]

RECURSIVE SumOver(_, _)
SumOver(S, f) ==
    IF S = {} THEN 0
    ELSE LET x == CHOOSE y \in S : TRUE IN f[x] + SumOver(S \ {x}, f)

----------------------------------------------------------------------------
(* Submission (audio/mixer.rs) *)

SubmissionNew == EmptyMap

\* Submission::add: a rate already present keeps its buffer length and gets the
\* new samples added over the common prefix; a new rate takes the samples.
SubmissionAdd(s, rate, samples) ==
    IF rate \in DOMAIN s
    THEN [s EXCEPT ![rate] =
            [ mixed |-> [ i \in 1..Len(s[rate].mixed) |->
                            IF i <= Len(samples)
                            THEN s[rate].mixed[i] + samples[i]
                            ELSE s[rate].mixed[i] ],
              num_streams |-> s[rate].num_streams + 1 ]]
    ELSE [ r \in DOMAIN s \cup {rate} |->
            IF r = rate THEN [mixed |-> samples, num_streams |-> 1] ELSE s[r] ]

----------------------------------------------------------------------------
(* Resamplers (audio/mixer.rs).  A resampler is its input queue and, when   *)
(* from # to, a converter: the interpolation value iv/to and the two frames *)
(* of the linear interpolator.                                              *)

ResamplerNewAlwaysConverts(from, to) ==
    [ queue |-> <<>>, from |-> from, to |-> to, conv |-> TRUE,
      iv |-> 0, left |-> 0, right |-> 0 ]

ResamplerNew(from, to) ==
    [ queue |-> <<>>, from |-> from, to |-> to, conv |-> (from # to),
      iv |-> 0, left |-> 0, right |-> 0 ]

push_sample(r, v) == [r EXCEPT !.queue = Append(@, v)]

RECURSIVE PushAll(_, _)
PushAll(r, samples) ==
    IF samples = <<>> THEN r
    ELSE PushAll(push_sample(r, Head(samples)), Tail(samples))

\* Converter::next, "advance frames": while the interpolation value is >= 1 the
\* interpolator takes the next source frame; the source signal drains the queue
\* and yields the equilibrium frame 0 once the queue is empty.
RECURSIVE Advance(_)
Advance(r) ==
    IF r.iv >= r.to
    THEN Advance([ r EXCEPT
                     !.left = r.right,
                     !.right = IF r.queue = <<>> THEN 0 ELSE Head(r.queue),
                     !.queue = IF r.queue = <<>> THEN <<>> ELSE Tail(r.queue),
                     !.iv = r.iv - r.to ])
    ELSE r

\* Signal::next of a resampler: the resampler after the call, the sample as a
\* numerator over r.to, and whether the call panicked (pop_front().unwrap()).
ResamplerNext(r) ==
    IF r.conv
    THEN LET a == Advance(r)
         IN [ r |-> [a EXCEPT !.iv = a.iv + a.from],
              num |-> a.left * a.to + (a.right - a.left) * a.iv,
              panic |-> FALSE ]
    ELSE IF r.queue = <<>>
         THEN [ r |-> r, num |-> 0, panic |-> TRUE ]
         ELSE [ r |-> [r EXCEPT !.queue = Tail(@)],
                num |-> Head(r.queue) * r.to,
                panic |-> FALSE ]

----------------------------------------------------------------------------
(* Mixer (audio/mixer.rs) *)

\* Mixer::next, "determine optimal sample rate": the loop over the rates of
\* the Submission, started from (self.sample_rate, 0).
RECURSIVE PickRatePlainMax(_, _, _, _)
PickRatePlainMax(s, todo, rate, num_streams) ==
    IF todo = {} THEN rate
    ELSE LET new_rate == CHOOSE r \in todo : TRUE
         IN IF num_streams = 0 \/ new_rate > rate
            THEN PickRatePlainMax(s, todo \ {new_rate}, new_rate, 1)
            ELSE PickRatePlainMax(s, todo \ {new_rate}, rate, num_streams)

RECURSIVE PickRate(_, _, _, _)
PickRate(s, todo, rate, num_streams) ==
    IF todo = {} THEN rate
    ELSE LET new_rate == CHOOSE r \in todo : TRUE
             new_streams == s[new_rate].num_streams
         IN IF new_streams > num_streams
               \/ (new_streams = num_streams /\ new_rate > rate)
            THEN PickRate(s, todo \ {new_rate}, new_rate, new_streams)
            ELSE PickRate(s, todo \ {new_rate}, rate, num_streams)

\* Lines 180-198: an unforced Mixer picks its rate anew and clears its resamplers.
RetargetKeepsResamplers(rate, target, rs, s) ==
    IF target = {}
    THEN [ rate |-> PickRate(s, DOMAIN s, rate, 0), rs |-> rs ]
    ELSE [ rate |-> rate, rs |-> rs ]

RetargetIgnoresForce(rate, target, rs, s) ==
    [ rate |-> PickRate(s, DOMAIN s, rate, 0), rs |-> EmptyMap ]

Retarget(rate, target, rs, s) ==
    IF target = {}
    THEN [ rate |-> PickRate(s, DOMAIN s, rate, 0), rs |-> EmptyMap ]
    ELSE [ rate |-> rate, rs |-> rs ]

\* Lines 200-207: a resampler is created for every rate of the Submission that
\* has none.
CreateResamplersOnlyFirst(rs, s, rate) ==
    IF DOMAIN rs = {}
    THEN [ r \in DOMAIN s |-> ResamplerNew(r, rate) ]
    ELSE rs

CreateResamplers(rs, s, rate) ==
    [ r \in DOMAIN rs \cup DOMAIN s |->
        IF r \in DOMAIN rs THEN rs[r] ELSE ResamplerNew(r, rate) ]

\* Lines 209-220: the samples of every rate go to its resampler; a rate
\* without one is warned about and ignored.
PushSubmission(rs, s) ==
    [ r \in DOMAIN rs |->
        IF r \in DOMAIN s THEN PushAll(rs[r], s[r].mixed) ELSE rs[r] ]

\* Lines 223-230: one sample is pulled from every resampler and summed.  The
\* sum is a numerator over the Mixer's rate: every resampler the Mixer holds
\* was created with to = sample_rate (a resampler is created with the current
\* rate, and the rate changes only where the resamplers are cleared).
MixStreamsAveraged(rs) ==
    LET nx == [ r \in DOMAIN rs |-> ResamplerNext(rs[r]) ]
        n  == Cardinality(DOMAIN rs)
        total == SumOver(DOMAIN rs, [ r \in DOMAIN rs |-> nx[r].num ])
    IN [ rs |-> [ r \in DOMAIN rs |-> nx[r].r ],
         num |-> IF n = 0 THEN 0 ELSE total \div n,
         panic |-> \E r \in DOMAIN rs : nx[r].panic ]

MixStreams(rs) ==
    LET nx == [ r \in DOMAIN rs |-> ResamplerNext(rs[r]) ]
    IN [ rs |-> [ r \in DOMAIN rs |-> nx[r].r ],
         num |-> SumOver(DOMAIN rs, [ r \in DOMAIN rs |-> nx[r].num ]),
         panic |-> \E r \in DOMAIN rs : nx[r].panic ]

----------------------------------------------------------------------------
(* Actions of the mixer *)

MixerInit ==
    /\ sub = SubmissionNew
    /\ lastAdd = {}
    /\ chan = <<>>
    /\ target_sample_rate \in {{}} \cup { {r} : r \in Rates }
    /\ sample_rate = IF target_sample_rate = {} THEN DefaultRate
                     ELSE CHOOSE r \in target_sample_rate : TRUE
    /\ resamplers = EmptyMap
    /\ panicked = FALSE
    /\ mixerLog = [created |-> {}, missing |-> {}]
    /\ consumed = <<>>
    /\ outsSince = <<>>
    /\ adds = 0
    /\ pulls = 0

\* Submission::add on the Submission under construction.
Add ==
    /\ ~panicked
    /\ adds < MaxAdds
    /\ \E rate \in Rates, samples \in SampleVecs :
         /\ sub' = SubmissionAdd(sub, rate, samples)
         /\ lastAdd' = IF rate \in DOMAIN sub
                       THEN { [rate |-> rate, before |-> sub[rate].mixed,
                               samples |-> samples] }
                       ELSE {}
    /\ adds' = adds + 1
    /\ UNCHANGED <<chan, sample_rate, target_sample_rate, resamplers, panicked,
                   mixerLog, consumed, outsSince, pulls>>
    /\ UNCHANGED notMixerVars

\* Sender::send on the channel returned by Mixer::new.
Send ==
    /\ ~panicked
    /\ Len(chan) < MaxQueue
    /\ Len(consumed) + Len(chan) < MaxQueue
    /\ chan' = Append(chan, sub)
    /\ sub' = SubmissionNew
    /\ lastAdd' = {}
    /\ UNCHANGED <<sample_rate, target_sample_rate, resamplers, panicked,
                   mixerLog, consumed, outsSince, adds, pulls>>
    /\ UNCHANGED notMixerVars

\* Mixer::next.
MixerNext ==
    /\ ~panicked
    /\ pulls < MaxPulls
    /\ LET polled == chan # <<>>
           s == IF polled THEN Head(chan) ELSE SubmissionNew
           rt == IF polled
                 THEN Retarget(sample_rate, target_sample_rate, resamplers, s)
                 ELSE [rate |-> sample_rate, rs |-> resamplers]
           created == IF polled
                      THEN CreateResamplers(rt.rs, s, rt.rate)
                      ELSE rt.rs
           pushed == IF polled THEN PushSubmission(created, s) ELSE created
           mix == MixStreams(pushed)
       IN /\ chan' = IF polled THEN Tail(chan) ELSE chan
          /\ sample_rate' = rt.rate
          /\ resamplers' = IF mix.panic THEN pushed ELSE mix.rs
          /\ panicked' = mix.panic
          /\ mixerLog' = IF polled
                         THEN [ created |-> DOMAIN created \ DOMAIN rt.rs,
                                missing |-> DOMAIN s \ DOMAIN created ]
                         ELSE [ created |-> {}, missing |-> {} ]
          /\ consumed' = IF polled THEN Append(consumed, s) ELSE consumed
          /\ outsSince' =
               IF mix.panic THEN outsSince
               ELSE Append(IF polled THEN <<>> ELSE outsSince,
                           [num |-> mix.num, den |-> rt.rate])
    /\ pulls' = pulls + 1
    /\ UNCHANGED <<sub, lastAdd, target_sample_rate, adds>>
    /\ UNCHANGED notMixerVars

MixerStep == Add \/ Send \/ MixerNext

----------------------------------------------------------------------------
(* Player (audio/playback.rs).  Two threads: the audio thread runs the      *)
(* device callback, the frame thread calls submit and rebuild_mixer.  A     *)
(* channel is named by the number of the rebuild that made it, 0 for the    *)
(* channel of Player::new; so is the stream that owns its Receiver.         *)

MaxRebuilds == 2
MaxSubmits == 3
MaxCallbacks == 2
BufLen == 2
ChunkLen == 2

ChannelIds == 0..MaxRebuilds

\* crossbeam_channel::bounded(0) (Player::new) and unbounded() (rebuild_mixer).
ChannelBounded0 == [zero |-> TRUE, q |-> <<>>]

ChannelUnbounded == [zero |-> FALSE, q |-> <<>>]

\* The mutex around mixer_stream: lock() goes on when nobody holds it.
LockAvailableAlways(l) == TRUE

LockAvailable(l) == l = "free"

\* mixer.into_stream(): a stream over the Receiver rx, with no mixed chunk yet.
MixerStreamNew(rx) == [rx |-> rx, chunk |-> 0]

\* MixerStream::next on a stream whose source is the blocking iterator of the
\* channel (sub_rx.into_iter()): a sample of the current chunk; else the next
\* Submission is taken from the source and mixed into a chunk of ChunkLen
\* samples; the source yields None once the channel is disconnected and empty,
\* and makes the caller wait while it is connected and empty.
MixerStreamNext(st, q, connected) ==
    IF st.chunk > 0
    THEN [st |-> [st EXCEPT !.chunk = @ - 1], res |-> "sample", took |-> FALSE]
    ELSE IF q # <<>>
         THEN [st |-> [st EXCEPT !.chunk = ChunkLen - 1], res |-> "sample",
               took |-> TRUE]
         ELSE IF connected
              THEN [st |-> st, res |-> "wait", took |-> FALSE]
              ELSE [st |-> st, res |-> "none", took |-> FALSE]

\* The Sender of channel c is alive: it is the one Player holds.
ConnectedForEver(c) == TRUE

Connected(c) == submission_queue = c

Receipt(s, st) == [id |-> s.id, epoch |-> s.epoch, stream |-> st.rx]

PlayerInit ==
    /\ channels = [c \in ChannelIds |-> IF c = 0 THEN ChannelBounded0
                                        ELSE ChannelUnbounded]
    /\ submission_queue = 0
    /\ mixer_stream = MixerStreamNew(0)
    /\ lock = "free"
    /\ audioPc = "idle"
    /\ remaining = 0
    /\ heldStream = 0
    /\ framePc = "idle"
    /\ pendingStream = {}
    /\ sending = {}
    /\ received = {}
    /\ rebuilds = 0
    /\ submits = 0
    /\ callbacks = 0

\* The callback starts: audio_stream.lock() (line 157).
AudioCallbackBegin ==
    /\ audioPc = "idle"
    /\ callbacks < MaxCallbacks
    /\ LockAvailable(lock)
    /\ lock' = "audio"
    /\ audioPc' = "fill"
    /\ remaining' = BufLen
    /\ heldStream' = mixer_stream.rx
    /\ callbacks' = callbacks + 1
    /\ UNCHANGED <<channels, submission_queue, mixer_stream, framePc,
                   pendingStream, sending, received, rebuilds, submits>>
    /\ UNCHANGED notPlayerVars

\* One element of the output buffer: audio_stream.next().unwrap_or(0f32)
\* (lines 163-179).  A frame thread that waits in send on the zero-capacity
\* channel of this stream hands its Submission over at once.
AudioNextSample ==
    /\ audioPc = "fill"
    /\ remaining > 0
    /\ LET rx == mixer_stream.rx
           handover == /\ mixer_stream.chunk = 0
                       /\ framePc = "send"
                       /\ submission_queue = rx
           q == IF handover THEN <<CHOOSE s \in sending : TRUE>>
                ELSE channels[rx].q
           nx == MixerStreamNext(mixer_stream, q, Connected(rx))
       IN /\ mixer_stream' = nx.st
          /\ IF nx.res = "wait"
             THEN /\ audioPc' = "recv"
                  /\ UNCHANGED remaining
             ELSE /\ audioPc' = "fill"
                  /\ remaining' = remaining - 1
          /\ received' = IF nx.took
                         THEN received \cup {Receipt(Head(q), mixer_stream)}
                         ELSE received
          /\ IF nx.took /\ handover
             THEN /\ framePc' = "idle"
                  /\ sending' = {}
                  /\ UNCHANGED channels
             ELSE /\ channels' = IF nx.took
                                 THEN [channels EXCEPT ![rx].q = Tail(@)]
                                 ELSE channels
                  /\ UNCHANGED <<framePc, sending>>
    /\ UNCHANGED <<submission_queue, lock, heldStream, pendingStream, rebuilds,
                   submits, callbacks>>
    /\ UNCHANGED notPlayerVars

\* The callback waits in the source of the stream and is woken: by a Submission
\* in the channel, or by the channel being disconnected.
AudioRecvWake ==
    /\ audioPc = "recv"
    /\ LET rx == mixer_stream.rx
           nx == MixerStreamNext(mixer_stream, channels[rx].q, Connected(rx))
       IN /\ nx.res # "wait"
          /\ mixer_stream' = nx.st
          /\ received' = IF nx.took
                         THEN received \cup {Receipt(Head(channels[rx].q), mixer_stream)}
                         ELSE received
          /\ channels' = IF nx.took THEN [channels EXCEPT ![rx].q = Tail(@)]
                         ELSE channels
    /\ audioPc' = "fill"
    /\ remaining' = remaining - 1
    /\ UNCHANGED <<submission_queue, lock, heldStream, framePc, pendingStream,
                   sending, rebuilds, submits, callbacks>>
    /\ UNCHANGED notPlayerVars

\* The callback returns and the guard of the mutex is dropped (line 183).
AudioCallbackEnd ==
    /\ audioPc = "fill"
    /\ remaining = 0
    /\ audioPc' = "idle"
    /\ lock' = "free"
    /\ UNCHANGED <<channels, submission_queue, mixer_stream, remaining, heldStream,
                   framePc, pendingStream, sending, received, rebuilds, submits,
                   callbacks>>
    /\ UNCHANGED notPlayerVars

\* Player::submit: self.submission_queue.send(sub).  An unbounded channel takes
\* the Submission at once; on the zero-capacity channel the Submission goes
\* straight to a receiver that waits, and the send waits when there is none.
PlayerSubmit ==
    /\ framePc = "idle"
    /\ submits < MaxSubmits
    /\ LET c == submission_queue
           s == [id |-> submits, epoch |-> rebuilds]
       IN IF ~channels[c].zero
          THEN /\ Len(channels[c].q) < MaxQueue
               /\ channels' = [channels EXCEPT ![c].q = Append(@, s)]
               /\ UNCHANGED <<mixer_stream, audioPc, remaining, framePc, sending,
                              received>>
          ELSE IF audioPc = "recv" /\ mixer_stream.rx = c
               THEN /\ mixer_stream' = [mixer_stream EXCEPT !.chunk = ChunkLen - 1]
                    /\ received' = received \cup {Receipt(s, mixer_stream)}
                    /\ audioPc' = "fill"
                    /\ remaining' = remaining - 1
                    /\ UNCHANGED <<channels, framePc, sending>>
               ELSE /\ framePc' = "send"
                    /\ sending' = {s}
                    /\ UNCHANGED <<channels, mixer_stream, audioPc, remaining,
                                   received>>
    /\ submits' = submits + 1
    /\ UNCHANGED <<submission_queue, lock, heldStream, pendingStream, rebuilds,
                   callbacks>>
    /\ UNCHANGED notPlayerVars

\* Player::rebuild_mixer, lines 215-223: a new unbounded channel and a stream
\* over its Receiver are made; the new Sender replaces the old one, which is
\* dropped.
RebuildMixerBegin ==
    /\ framePc = "idle"
    /\ rebuilds < MaxRebuilds
    /\ LET c == submission_queue + 1
       IN /\ channels' = [channels EXCEPT ![c] = ChannelUnbounded]
          /\ submission_queue' = c
          /\ pendingStream' = {MixerStreamNew(c)}
    /\ framePc' = "rebuild"
    /\ UNCHANGED <<mixer_stream, lock, audioPc, remaining, heldStream, sending,
                   received, rebuilds, submits, callbacks>>
    /\ UNCHANGED notPlayerVars

\* Player::rebuild_mixer, line 224: *self.mixer_stream.lock() = mixer_stream.
\* The old stream is dropped, and with it the Receiver of the old channel.
RebuildMixerSwap ==
    /\ framePc = "rebuild"
    /\ LockAvailable(lock)
    /\ mixer_stream' = CHOOSE st \in pendingStream : TRUE
    /\ channels' = [channels EXCEPT ![mixer_stream.rx].q = <<>>]
    /\ pendingStream' = {}
    /\ framePc' = "idle"
    /\ rebuilds' = rebuilds + 1
    /\ UNCHANGED <<submission_queue, lock, audioPc, remaining, heldStream, sending,
                   received, submits, callbacks>>
    /\ UNCHANGED notPlayerVars

PlayerStep ==
    \/ AudioCallbackBegin
    \/ AudioNextSample
    \/ AudioRecvWake
    \/ AudioCallbackEnd
    \/ PlayerSubmit
    \/ RebuildMixerBegin
    \/ RebuildMixerSwap
----------------------------------------------------------------------------
(* Scope (scope.rs): the one-slot mailbox of the scope's Mixer *)

MaxScopeSubmits == 5

\* SubmissionSlot::new(None), as configure_mixer builds the Mixer.
SubmissionSlotNew == {}

\* Option::replace on the slot (Scope::submit).
SlotKeepsFirst(inner, s) == IF inner = {} THEN {s} ELSE inner

SlotReplace(inner, s) == {s}

\* SubmissionSlot::next: self.inner.take().
SlotTakeKeeps(inner) == [item |-> inner, inner |-> inner]

SlotTake(inner) == [item |-> inner, inner |-> {}]

\* Scope.mixer is None.
Unconfigured == 0

\* Inputs of the scope: rates in Hz, durations in milliseconds.
ScopeRates == {600, 1000}

WindowSizes == {3, 4}

TriggerWidths == {2, 4}

\* (sample_rate as f32 * seconds) as usize: the cast truncates.
Samples(rate, ms) == (rate * ms) \div 1000

\* Scope::wanted_length.
wanted_length == window_size + trigger_width

\* output_size and trigger_samples of Scope::process and Scope::output.
output_size == Samples(scope_sample_rate, window_size)

trigger_samples == Samples(scope_sample_rate, trigger_width)

\* trigger_pad and the bounds of trigger_range for a buffer of len samples.
trigger_pad(len) == (len - trigger_samples) \div 2

trigger_range(len) == trigger_pad(len)..(len - trigger_pad(len))

\* Length of the buffer Mixer::next returns for a Submission of
\* wanted_length seconds at the Mixer's own rate.
MixedLength(rate, ms) == (rate * ms + 500) \div 1000

\* data[i] of a Rust slice (indices from 0).
At(data, i) == data[i + 1]

\* The buffers routed to the scope: silence below zero, and a signal that is
\* negative before index k and positive from k on.
StepAt(len, k) == [i \in 1..len |-> IF i - 1 < k THEN -1 ELSE 1]

AudioShapes(len) == { StepAt(len, k) : k \in 1..len }

\* A failed computation (a panic inside the algorithm).
CenterPanic == -1

\* NoCentering::center: the midpoint of data.
NoCenteringCenter(data, lo, hi) == Len(data) \div 2

\* The rising zero crossings of data inside lo..=hi: data[k-1] <= 0 <= data[k].
RisingCrossings(data, lo, hi) ==
    { k \in lo..hi : /\ k >= 1
                     /\ k < Len(data)
                     /\ At(data, k - 1) <= 0
                     /\ At(data, k) >= 0 }

Dist(a, b) == IF a >= b THEN a - b ELSE b - a

\* ZeroCrossing::center: the rising crossing nearest to the midpoint, the left
\* one at equal distance; the midpoint when there is none.
ZeroCrossingCenter(data, lo, hi) ==
    LET mid == Len(data) \div 2
        cs  == RisingCrossings(data, lo, hi)
    IN IF cs = {} THEN mid
       ELSE CHOOSE k \in cs :
               \A j \in cs : \/ Dist(k, mid) < Dist(j, mid)
                             \/ Dist(k, mid) = Dist(j, mid) /\ k <= j

\* FundamentalPhase::center, lines 182-191: the first i in center..center+tau
\* with data[i-1] negative and data[i] positive, else center.  data[i - 1]
\* with i = 0 underflows.
SnapFindsFirst(data, c, tau) ==
    LET hits == { i \in c..(c + tau - 1) :
                    i >= 1 /\ At(data, i - 1) < 0 /\ At(data, i) >= 0 }
    IN IF c = 0 THEN CenterPanic
       ELSE IF hits = {} THEN c
       ELSE CHOOSE i \in hits : \A j \in hits : i <= j

\* FundamentalPhase::center.  The YIN period tau and the phase of the
\* fundamental are floating-point results of three FFTs: every tau the
\* period pick (lines 126-136) can end with and every phase atan2 can return
\* (-pi..pi, so 0..tau samples) is an outcome.  yin_input is data[lo..hi];
\* with fewer than two periods of two samples the slice yin_input[0..2*tau]
\* (line 145) is out of range.
FundamentalPhaseCentersNoStart(data, lo, hi, snap) ==
    LET audio_len == hi - lo
        yin_len   == audio_len \div 2
    IN IF yin_len < 2 THEN {CenterPanic}
       ELSE UNION { { tau - shift : shift \in 0..(tau - 1) } : tau \in 2..yin_len }

FundamentalPhaseCenters(data, lo, hi, snap) ==
    LET audio_len == hi - lo
        yin_len   == audio_len \div 2
    IN IF yin_len < 2 THEN {CenterPanic}
       ELSE UNION { { IF snap THEN SnapFindsFirst(data, lo + tau - shift, tau)
                              ELSE lo + tau - shift : shift \in 0..tau } :
                    tau \in 2..yin_len }

\* Centering::center: the delegation to the variant.
CenteringCenter(c, data, lo, hi) ==
    CASE c.kind = "NoCentering"      -> {NoCenteringCenter(data, lo, hi)}
      [] c.kind = "ZeroCrossing"     -> {ZeroCrossingCenter(data, lo, hi)}
      [] c.kind = "FundamentalPhase" -> FundamentalPhaseCenters(data, lo, hi, c.snap)

Centerings ==
    { [kind |-> "NoCentering", snap |-> FALSE],
      [kind |-> "ZeroCrossing", snap |-> FALSE],
      [kind |-> "FundamentalPhase", snap |-> FALSE],
      [kind |-> "FundamentalPhase", snap |-> TRUE] }

ScopeInit ==
    /\ slot = SubmissionSlotNew
    /\ scopeMixed = <<>>
    /\ overwritten = {}
    /\ sinceProcess = 0
    /\ scopePanicked = FALSE
    /\ scopeSubmits = 0
    /\ slotAudio = <<>>
    /\ scope_sample_rate = Unconfigured
    /\ window_size = 0
    /\ trigger_width = 0
    /\ centering = [kind |-> "NoCentering", snap |-> FALSE]
    /\ audio = <<>>
    /\ center = CenterPanic
    /\ center_offset = 0
    /\ outLen = -1

ScopeConfigVars == <<scope_sample_rate, window_size, trigger_width, centering>>

\* State::from_file: the scope as the project file describes it, and
\* Scope::configure_mixer with the rates of the sources connected to it.
ScopeConfigure ==
    /\ ~scopePanicked
    /\ scope_sample_rate = Unconfigured
    /\ scope_sample_rate' \in ScopeRates
    /\ window_size' \in WindowSizes
    /\ trigger_width' \in TriggerWidths
    /\ centering' \in Centerings
    /\ slot' = SubmissionSlotNew
    /\ UNCHANGED <<scopeMixed, overwritten, sinceProcess, scopePanicked,
                   scopeSubmits, slotAudio, audio, center, center_offset, outLen>>
    /\ UNCHANGED notScopeVars

\* A call on a scope whose mixer is None: expect("scope mixer unconfigured").
ScopeUnconfigured ==
    /\ ~scopePanicked
    /\ scope_sample_rate = Unconfigured
    /\ scopePanicked' = TRUE
    /\ UNCHANGED <<slot, scopeMixed, overwritten, sinceProcess, scopeSubmits,
                   slotAudio, audio, center, center_offset, outLen>>
    /\ UNCHANGED ScopeConfigVars
    /\ UNCHANGED notScopeVars

\* Scope::build_submission, the routing of the frame and Scope::submit.
ScopeSubmit ==
    /\ ~scopePanicked
    /\ scope_sample_rate # Unconfigured
    /\ scopeSubmits < MaxScopeSubmits
    /\ slot' = SlotReplace(slot, scopeSubmits)
    /\ slotAudio' \in AudioShapes(MixedLength(scope_sample_rate, wanted_length))
    /\ overwritten' = overwritten \cup (slot \ slot')
    /\ sinceProcess' = sinceProcess + 1
    /\ scopeSubmits' = scopeSubmits + 1
    /\ UNCHANGED <<scopeMixed, scopePanicked, audio, center, center_offset, outLen>>
    /\ UNCHANGED ScopeConfigVars
    /\ UNCHANGED notScopeVars

\* Scope::process.  The Mixer takes the Submission of the slot; with an empty
\* slot mixer.next() is None and expect("attempted to process no audio!")
\* panics.  A usize subtraction that would go below zero, a panic inside the
\* centering algorithm and a failed assert!(trigger_range.contains(&center))
\* end the call as well.
ScopeProcess ==
    /\ ~scopePanicked
    /\ scope_sample_rate # Unconfigured
    /\ LET t == SlotTake(slot)
           len == Len(slotAudio)
           lo == trigger_pad(len)
           hi == len - trigger_pad(len)
       IN /\ slot' = t.inner
          /\ slotAudio' = <<>>
          /\ IF t.item = {}
             THEN /\ scopePanicked' = TRUE
                  /\ UNCHANGED <<scopeMixed, audio, center, center_offset>>
             ELSE /\ scopeMixed' = Append(scopeMixed, CHOOSE s \in t.item : TRUE)
                  /\ audio' = slotAudio
                  /\ IF len < trigger_samples
                     THEN /\ scopePanicked' = TRUE
                          /\ center' = CenterPanic
                          /\ UNCHANGED center_offset
                     ELSE \E c \in CenteringCenter(centering, slotAudio, lo, hi) :
                            /\ center' = c
                            /\ IF \/ c = CenterPanic
                                  \/ c \notin trigger_range(len)
                                  \/ c < output_size \div 2
                               THEN /\ scopePanicked' = TRUE
                                    /\ UNCHANGED center_offset
                               ELSE /\ center_offset' = c - output_size \div 2
                                    /\ UNCHANGED scopePanicked
    /\ sinceProcess' = 0
    /\ UNCHANGED <<overwritten, scopeSubmits, outLen>>
    /\ UNCHANGED ScopeConfigVars
    /\ UNCHANGED notScopeVars

\* Scope::output, as the renderer calls it after process():
\* &self.audio[center_offset..output_size + center_offset] panics when the
\* slice ends after the buffer.
ScopeOutput ==
    /\ ~scopePanicked
    /\ scope_sample_rate # Unconfigured
    /\ scopeMixed # <<>>
    /\ IF output_size + center_offset > Len(audio)
       THEN /\ scopePanicked' = TRUE
            /\ UNCHANGED outLen
       ELSE /\ outLen' = (output_size + center_offset) - center_offset
            /\ UNCHANGED scopePanicked
    /\ UNCHANGED <<slot, scopeMixed, overwritten, sinceProcess, scopeSubmits,
                   slotAudio, audio, center, center_offset>>
    /\ UNCHANGED ScopeConfigVars
    /\ UNCHANGED notScopeVars

ScopeStep ==
    \/ ScopeConfigure
    \/ ScopeUnconfigured
    \/ ScopeSubmit
    \/ ScopeProcess
    \/ ScopeOutput

----------------------------------------------------------------------------
(* The frame tick (commands/app.rs): the handler of ResumeTimeReached, on    *)
(* the event loop thread, and the changes the UI makes between two ticks.   *)

MaxTicks == 3
MaxUiEvents == 2

\* state.scopes: the names of the project's scopes.
TickScopes == {"a", "b"}

\* The loaded audio sources, in the order of state.audio_sources.
TickSources == <<1, 2>>

\* source.len() / (sample_rate / framerate): the frames of audio a source holds.
SourceFrames(s) == IF s = 1 THEN 2 ELSE 1

\* source.connections.
SourceConnections(s) ==
    IF s = 1
    THEN { [target |-> "Master", name |-> "Left"], [target |-> "Scope", name |-> "gone"],
           [target |-> "Scope", name |-> "a"] }
    ELSE { [target |-> "Scope", name |-> "b"], [target |-> "Scope", name |-> "ghost"] }

\* Result<Vec<f32>, ReadError> of AsLoaded::chunk_at: a seek failure, a decode
\* error and an unsupported bit depth are Err.
ReadResults == {"ok", "err"}

\* Lines 534-546: a connection to the master adds the chunk of the source to
\* the master Submission, if state.playback.playing.
RouteToMasterAlways(msub, conns, s, play) ==
    IF \E c \in conns : c.target = "Master" THEN msub \cup {s} ELSE msub

RouteToMaster(msub, conns, s, play) ==
    IF play /\ \E c \in conns : c.target = "Master" THEN msub \cup {s} ELSE msub

\* The connection targets of a source that name no scope Submission
\* (line 559, the else arm of scope_submissions.get_mut(name)).
UnknownTargets(subs, conns) ==
    { c.name : c \in { d \in conns : d.target = "Scope" /\ d.name \notin DOMAIN subs } }

\* Lines 547-558: every connection to an existing scope adds the chunk of the
\* source to the Submission of that scope; the other connections add nothing.
RouteToScopesUntilUnknown(subs, conns, s) ==
    IF UnknownTargets(subs, conns) # {} THEN subs
    ELSE [n \in DOMAIN subs |->
            IF [target |-> "Scope", name |-> n] \in conns
            THEN subs[n] \cup {s} ELSE subs[n]]

RouteToScopes(subs, conns, s) ==
    [n \in DOMAIN subs |->
        IF [target |-> "Scope", name |-> n] \in conns
        THEN subs[n] \cup {s} ELSE subs[n]]

\* par_bridge().for_each and iter_mut().for_each return when process() has
\* returned for every scope.
AllProcessedNoJoin(done) == TRUE

AllProcessed(done) == done = TickScopes

\* The state the event loop starts from, whatever sources were loaded.
TickFresh ==
    /\ frame = 0
    /\ playing = TRUE
    /\ reprocess = TRUE
    /\ multithreaded_centering = TRUE
    /\ tickPc = "idle"
    /\ sources_exhausted = FALSE
    /\ todoSources = <<>>
    /\ master_sub = {}
    /\ scope_submissions = EmptyMap
    /\ mailboxes = [n \in TickScopes |-> {}]
    /\ submittedIn = {}
    /\ processedIn = {}
    /\ readIn = {}
    /\ failedReads = {}
    /\ warned = {}
    /\ masterSubmits = <<>>
    /\ tickPanicked = FALSE
    /\ ticks = 0
    /\ uiEvents = 0

TickInit == loaded_sources = TickSources /\ TickFresh

\* rawrscope started on a project whose sources all loaded, or with no state
\* file (State::default() has no source at all).
TickStartup == loaded_sources \in { <<>>, TickSources } /\ TickFresh

\* Lines 471-474: every loaded source has less audio than the frame needs.
SourcesExhaustedNeedsSource(srcs, f) ==
    /\ srcs # <<>>
    /\ \A i \in 1..Len(srcs) : f > SourceFrames(srcs[i])

SourcesExhausted(srcs, f) ==
    \A i \in 1..Len(srcs) : f > SourceFrames(srcs[i])

\* Lines 452-499: the master Submission, sources_exhausted and, when there
\* is audio to process, the scope Submissions.
TickBegin ==
    /\ tickPc = "idle"
    /\ ~tickPanicked
    /\ ticks < MaxTicks
    /\ ticks' = ticks + 1
    /\ master_sub' = {}
    /\ submittedIn' = {}
    /\ processedIn' = {}
    /\ readIn' = {}
    /\ failedReads' = {}
    /\ LET exhausted == SourcesExhausted(loaded_sources, frame)
       IN /\ sources_exhausted' = exhausted
          /\ IF (~exhausted /\ playing) \/ reprocess
             THEN /\ reprocess' = FALSE
                  /\ scope_submissions' = [n \in TickScopes |-> {}]
                  /\ todoSources' = loaded_sources
                  /\ tickPc' = IF loaded_sources = <<>> THEN "submit" ELSE "read"
             ELSE /\ scope_submissions' = EmptyMap
                  /\ todoSources' = <<>>
                  /\ tickPc' = "finish"
                  /\ UNCHANGED reprocess
    /\ UNCHANGED <<frame, playing, multithreaded_centering, mailboxes, warned,
                   masterSubmits, tickPanicked, uiEvents>>
    /\ UNCHANGED loaded_sources
    /\ UNCHANGED notTickVars

\* Lines 500-564, one source: chunk_at(..).unwrap() and the routing of its
\* connections.
TickReadSource ==
    /\ tickPc = "read"
    /\ ~tickPanicked
    /\ todoSources # <<>>
    /\ LET s == Head(todoSources)
           conns == SourceConnections(s)
       IN \E res \in ReadResults :
            IF res = "err"
            THEN /\ failedReads' = failedReads \cup {s}
                 /\ tickPanicked' = TRUE
                 /\ UNCHANGED <<todoSources, master_sub, scope_submissions, warned,
                                tickPc>>
            ELSE /\ master_sub' = RouteToMaster(master_sub, conns, s, playing)
                 /\ scope_submissions' = RouteToScopes(scope_submissions, conns, s)
                 /\ warned' = warned \cup UnknownTargets(scope_submissions, conns)
                 /\ todoSources' = Tail(todoSources)
                 /\ tickPc' = IF Tail(todoSources) = <<>> THEN "submit" ELSE "read"
                 /\ UNCHANGED <<failedReads, tickPanicked>>
    /\ UNCHANGED <<frame, playing, reprocess, multithreaded_centering,
                   sources_exhausted, mailboxes, submittedIn, processedIn, readIn,
                   masterSubmits, ticks, uiEvents>>
    /\ UNCHANGED loaded_sources
    /\ UNCHANGED notTickVars

\* Lines 566-570: every scope Submission goes to the mailbox of its scope.
TickSubmitScopes ==
    /\ tickPc = "submit"
    /\ ~tickPanicked
    /\ mailboxes' = [n \in TickScopes |-> SlotReplace(mailboxes[n], scope_submissions[n])]
    /\ submittedIn' = DOMAIN scope_submissions
    /\ tickPc' = "process"
    /\ UNCHANGED <<frame, playing, reprocess, multithreaded_centering,
                   sources_exhausted, todoSources, master_sub, scope_submissions,
                   processedIn, readIn, failedReads, warned, masterSubmits,
                   tickPanicked, ticks, uiEvents>>
    /\ UNCHANGED loaded_sources
    /\ UNCHANGED notTickVars

\* Lines 575-586: process() of one scope, on a worker of the pool or in the
\* loop over state.scopes; the order of the map is not fixed.
TickProcess(n) ==
    /\ tickPc = "process"
    /\ ~tickPanicked
    /\ n \notin processedIn
    /\ LET t == SlotTake(mailboxes[n])
       IN /\ mailboxes' = [mailboxes EXCEPT ![n] = t.inner]
          /\ IF t.item = {}
             THEN /\ tickPanicked' = TRUE
                  /\ UNCHANGED processedIn
             ELSE /\ processedIn' = processedIn \cup {n}
                  /\ UNCHANGED tickPanicked
    /\ UNCHANGED <<frame, playing, reprocess, multithreaded_centering, tickPc,
                   sources_exhausted, todoSources, master_sub, scope_submissions,
                   submittedIn, readIn, failedReads, warned, masterSubmits, ticks,
                   uiEvents>>
    /\ UNCHANGED loaded_sources
    /\ UNCHANGED notTickVars

\* Lines 589-598: ScopeRenderer::render reads output() of every scope
\* (render.rs:313-314).
TickRender ==
    /\ tickPc = "process"
    /\ ~tickPanicked
    /\ AllProcessed(processedIn)
    /\ readIn' = TickScopes
    /\ tickPc' = "finish"
    /\ UNCHANGED <<frame, playing, reprocess, multithreaded_centering,
                   sources_exhausted, todoSources, master_sub, scope_submissions,
                   mailboxes, submittedIn, processedIn, failedReads, warned,
                   masterSubmits, tickPanicked, ticks, uiEvents>>
    /\ UNCHANGED loaded_sources
    /\ UNCHANGED notTickVars

\* Lines 601-614: pause when done, submit the master Submission, count the
\* frame.
TickFinish ==
    /\ tickPc = "finish"
    /\ ~tickPanicked
    /\ playing' = IF sources_exhausted /\ playing THEN FALSE ELSE playing
    /\ masterSubmits' = Append(masterSubmits, master_sub)
    /\ frame' = IF playing' THEN frame + 1 ELSE frame
    /\ tickPc' = "idle"
    /\ UNCHANGED <<reprocess, multithreaded_centering, sources_exhausted,
                   todoSources, master_sub, scope_submissions, mailboxes,
                   submittedIn, processedIn, readIn, failedReads, warned,
                   tickPanicked, ticks, uiEvents>>
    /\ UNCHANGED loaded_sources
    /\ UNCHANGED notTickVars

\* The UserEvent handler between two ticks: the play button (ui.rs:146), the
\* buttons that move the frame by 100 (ui.rs:149-156), a change that asks
\* for REDRAW_SCOPES (app.rs:394-396) and the debug checkbox (ui.rs:181).
UiEvent ==
    /\ tickPc = "idle"
    /\ ~tickPanicked
    /\ uiEvents < MaxUiEvents
    /\ uiEvents' = uiEvents + 1
    /\ \/ /\ playing' = ~playing
          /\ UNCHANGED <<frame, reprocess, multithreaded_centering>>
       \/ /\ frame' = frame + 100
          /\ reprocess' = TRUE
          /\ UNCHANGED <<playing, multithreaded_centering>>
       \/ /\ frame' = IF frame >= 100 THEN frame - 100 ELSE 0
          /\ reprocess' = TRUE
          /\ UNCHANGED <<playing, multithreaded_centering>>
       \/ /\ reprocess' = TRUE
          /\ UNCHANGED <<frame, playing, multithreaded_centering>>
       \/ /\ multithreaded_centering' = ~multithreaded_centering
          /\ UNCHANGED <<frame, playing, reprocess>>
    /\ UNCHANGED <<tickPc, sources_exhausted, todoSources, master_sub,
                   scope_submissions, mailboxes, submittedIn, processedIn, readIn,
                   failedReads, warned, masterSubmits, tickPanicked, ticks>>
    /\ UNCHANGED loaded_sources
    /\ UNCHANGED notTickVars

TickStep ==
    \/ TickBegin
    \/ TickReadSource
    \/ TickSubmitScopes
    \/ \E n \in TickScopes : TickProcess(n)
    \/ TickRender
    \/ TickFinish
    \/ UiEvent

----------------------------------------------------------------------------
(* calculate_offset of ZeroCrossing and NoCentering                          *)
(* (scope/centering/zero_crossing.rs, scope/centering/none.rs), as functions *)
(* of their arguments.                                                       *)

MaxDataLen == 5
MaxWindowLen == 4

\* No call has returned yet.
NotCalled == -2

Min(a, b) == IF a <= b THEN a ELSE b

\* Buffers of samples -1, 0 and 1: steps, and two shapes with more than one
\* crossing.
Alternating(len) == [i \in 1..len |-> IF i % 2 = 1 THEN -1 ELSE 1]

TwoCrossings(len) ==
    [i \in 1..len |-> IF i = len - 2 THEN -1 ELSE IF i = len - 1 THEN 0 ELSE 1]

DataBuffers ==
    UNION { { StepAt(len, k) : k \in 0..len } \cup {Alternating(len), TwoCrossings(len)} :
            len \in 0..MaxDataLen }

\* data[i] <= 0.0 && data[i + 1] >= 0.0
CrossingAt(d, i) == At(d, i) <= 0 /\ At(d, i + 1) >= 0

\* for i in start..end: the i the loop returns at, if any.  An index at or
\* after data.len() panics.
ScanLastCrossing(d, start, end) ==
    LET stops == { i \in start..(end - 1) : i + 1 >= Len(d) \/ CrossingAt(d, i) }
    IN IF stops = {} THEN [found |-> FALSE, i |-> 0, panic |-> FALSE]
       ELSE LET i == CHOOSE j \in stops : \A h \in stops : h <= j
            IN [found |-> TRUE, i |-> i, panic |-> i + 1 >= Len(d)]

Scan(d, start, end) ==
    LET stops == { i \in start..(end - 1) : i + 1 >= Len(d) \/ CrossingAt(d, i) }
    IN IF stops = {} THEN [found |-> FALSE, i |-> 0, panic |-> FALSE]
       ELSE LET i == CHOOSE j \in stops : \A h \in stops : j <= h
            IN [found |-> TRUE, i |-> i, panic |-> i + 1 >= Len(d)]

\* ZeroCrossing::calculate_offset.  (start + trigger_samples).min(data.len()) - 1
\* with a minimum of 0 panics where overflow is checked and wraps to
\* usize::MAX where it is not, so that the loop runs to the end of the buffer.
ZeroCrossingReturnsIndex(d, rate, wlen, width) ==
    LET start == wlen \div 2
        limit == Min(start + Samples(rate, width), Len(d))
        sc    == Scan(d, start, limit - 1)
    IN IF limit = 0 THEN {CenterPanic}
       ELSE {IF sc.panic THEN CenterPanic ELSE IF sc.found THEN sc.i ELSE 0}

ZeroCrossingOffsets(d, rate, wlen, width) ==
    LET start == wlen \div 2
        limit == Min(start + Samples(rate, width), Len(d))
        Result(end) ==
            LET sc == Scan(d, start, end)
            IN IF sc.panic THEN CenterPanic
               ELSE IF sc.found THEN sc.i - wlen \div 2
               ELSE 0
    IN IF limit = 0 THEN {CenterPanic, Result(Len(d) + 1)}
       ELSE {Result(limit - 1)}

\* NoCentering::calculate_offset.
NoCenteringMidpoint(d, rate, wlen) == Len(d) \div 2

NoCenteringCalculateOffset(d, rate, wlen) == 0

\* The state before a call, with arguments still to be chosen.
CallInit ==
    /\ call_data = <<>>
    /\ call_sample_rate = 1000
    /\ window_len = 0
    /\ zc_trigger_width = 2
    /\ zcOffset = NotCalled
    /\ ncOffset = NotCalled

\* The arguments of one call.
CallInputs ==
    /\ call_data \in DataBuffers
    /\ call_sample_rate \in ScopeRates
    /\ window_len \in 0..MaxWindowLen
    /\ zc_trigger_width \in TriggerWidths
    /\ zcOffset = NotCalled
    /\ ncOffset = NotCalled

ZeroCrossingCall ==
    /\ zcOffset = NotCalled
    /\ zcOffset' \in ZeroCrossingOffsets(call_data, call_sample_rate, window_len,
                                        zc_trigger_width)
    /\ UNCHANGED <<call_data, call_sample_rate, window_len, zc_trigger_width, ncOffset>>
    /\ UNCHANGED notCallVars

NoCenteringCall ==
    /\ ncOffset = NotCalled
    /\ ncOffset' = NoCenteringCalculateOffset(call_data, call_sample_rate, window_len)
    /\ UNCHANGED <<call_data, call_sample_rate, window_len, zc_trigger_width, zcOffset>>
    /\ UNCHANGED notCallVars

CallStep == ZeroCrossingCall \/ NoCenteringCall

----------------------------------------------------------------------------
(* FundamentalPhase (scope/centering/fundamental_phase.rs): one value of the *)
(* struct and a series of calls of center on it.  The floating-point values  *)
(* are not computed; what is followed is where each value comes from.  An    *)
(* element of a working buffer is TRUE when it was determined by the         *)
(* arguments of the running call alone (written by it, or zero-filled by     *)
(* resize), FALSE when it is left over from an earlier call.  The arithmetic *)
(* is one fixed function of the values it reads, phaseFn, found out call by  *)
(* call; a call that reads a left-over element can return anything.          *)

MaxPhaseCalls == 3

\* The arguments of center: data and center_range (lo..=hi); from self, the
\* configured snap_to_crossings, here switched on.
PhaseData == { StepAt(7, 2), StepAt(7, 4) }

PhaseRanges == { [lo |-> 1, hi |-> 5], [lo |-> 1, hi |-> 7] }

PhaseArgs ==
    { [samples |-> d, lo |-> r.lo, hi |-> r.hi, snap |-> TRUE] :
        d \in PhaseData, r \in PhaseRanges }

\* Vec::resize(n, zero): the elements below the old length stay, the new ones
\* are zero.
Resize(old_len, n) == [ i \in 1..n |-> i > old_len ]

\* FFT::process(input, output): every element of output is written, from all
\* of input.
FftProcess(input, output) ==
    [ i \in 1..Len(output) |-> \A j \in 1..Len(input) : input[j] ]

\* FFTplanner::plan_fft(len): the plan for len, kept in the planner's cache.
PlanFft(cache, len) == cache \cup {len}

\* Lines 103-110: power_terms[0] from fft_out[yin_len], then power_terms[tau]
\* from power_terms[tau - 1] and yin_input, for tau in 1..yin_len.
RECURSIVE PowerLoop(_, _, _)
PowerLoop(p, tau, yin_len) ==
    IF tau >= yin_len THEN p
    ELSE PowerLoop([p EXCEPT ![tau + 1] = p[tau]], tau + 1, yin_len)

PowerTermsKeepsFirst(p, fft_out, yin_len) == PowerLoop(p, 1, yin_len)

PowerTerms(p, fft_out, yin_len) ==
    PowerLoop([p EXCEPT ![1] = fft_out[yin_len + 1]], 1, yin_len)

\* Lines 113-116: yin[i] from power_terms[0], power_terms[i] and
\* fft_out[i + yin_len], for i in 0..yin_len.
ConvertAcf(y, p, fft_out, yin_len) ==
    [ i \in 1..Len(y) |->
        IF i <= yin_len THEN p[1] /\ p[i] /\ fft_out[i + yin_len] ELSE y[i] ]

\* Lines 119-124: yin[0] = 1; yin[tau] is scaled by tau / running_sum, the
\* sum of yin[1..=tau] as they were.
Normalise(y, yin_len) ==
    [ i \in 1..Len(y) |->
        IF i = 1 THEN TRUE
        ELSE IF i <= yin_len THEN \A j \in 2..i : y[j]
        ELSE y[i] ]

\* Lines 63-136, for buffers of the lengths lens: the lengths after the call
\* and whether everything the period pick can read (yin[2..yin_len]) was
\* determined by the arguments of this call.
PhaseDataflow(lens, audio_len, yin_len) ==
    LET kernel0  == Resize(lens.kernel_out, audio_len)
        fft_out0 == Resize(lens.fft_out, audio_len)
        yin0     == Resize(lens.yin, yin_len)
        power0   == Resize(lens.power_terms, yin_len)
        fft_in1  == [ i \in 1..audio_len |-> TRUE ]
        fft_out1 == FftProcess(fft_in1, fft_out0)
        fft_in2  == [ i \in 1..audio_len |-> TRUE ]
        kernel1  == FftProcess(fft_in2, kernel0)
        fft_in3  == [ i \in 1..audio_len |-> fft_out1[i] /\ kernel1[i] ]
        fft_out2 == FftProcess(fft_in3, fft_out1)
        power1   == PowerTerms(power0, fft_out2, yin_len)
        yin1     == ConvertAcf(yin0, power1, fft_out2, yin_len)
        yin2     == Normalise(yin1, yin_len)
    IN [ lens  |-> [ fft_in |-> audio_len, kernel_out |-> audio_len,
                     fft_out |-> audio_len, yin |-> yin_len,
                     power_terms |-> yin_len ],
         clean |-> \A tau \in 2..(yin_len - 1) : yin2[tau + 1] ]

\* Lines 126-191: every period tau the pick can end with and every phase
\* atan2 can return, with the index center returns for them.  With fewer
\* than two periods of two samples yin_input[0..2*tau] is out of range.
PhaseOutcomes(a) ==
    LET yin_len == (a.hi - a.lo) \div 2
    IN IF yin_len < 2 THEN { [tau |-> 2, center |-> CenterPanic] }
       ELSE UNION { { [tau |-> t,
                       center |-> IF a.snap
                                  THEN SnapFindsFirst(a.samples, a.lo + t - shift, t)
                                  ELSE a.lo + t - shift] :
                      shift \in 0..t } :
                    t \in 2..yin_len }

PhaseInit ==
    /\ planners = [forward |-> {}, inverse |-> {}]
    /\ buffers = [fft_in |-> 0, kernel_out |-> 0, fft_out |-> 0, yin |-> 0,
                  power_terms |-> 0]
    /\ last_tau = 0
    /\ phaseFn = EmptyMap
    /\ phaseCalls = <<>>
    /\ phasePanicked = FALSE

\* One call of FundamentalPhase::center.
PhaseCenter ==
    /\ ~phasePanicked
    /\ Len(phaseCalls) < MaxPhaseCalls
    /\ \E a \in PhaseArgs :
         LET audio_len == a.hi - a.lo
             yin_len   == audio_len \div 2
             flow      == PhaseDataflow(buffers, audio_len, yin_len)
         IN \E o \in PhaseOutcomes(a) :
              /\ (flow.clean /\ a \in DOMAIN phaseFn) => o = phaseFn[a]
              /\ phaseFn' = IF flow.clean /\ a \notin DOMAIN phaseFn
                            THEN [ x \in DOMAIN phaseFn \cup {a} |->
                                     IF x = a THEN o ELSE phaseFn[x] ]
                            ELSE phaseFn
              /\ buffers' = flow.lens
              /\ last_tau' = o.tau
              /\ planners' =
                    [ forward |-> PlanFft(PlanFft(planners.forward, audio_len), 2 * o.tau),
                      inverse |-> PlanFft(planners.inverse, audio_len) ]
              /\ phaseCalls' = Append(phaseCalls, [args |-> a, center |-> o.center])
              /\ phasePanicked' = (o.center = CenterPanic)
    /\ UNCHANGED notPhaseVars

PhaseStep == PhaseCenter

----------------------------------------------------------------------------
(* AsyncSwapchain (commands/app.rs).  Two threads: the swapchain thread       *)
(* acquires a frame when one is requested and sends it to the event loop;    *)
(* the event loop thread requests images, replaces the swapchain on a resize *)
(* and handles the frames sent to it.  A wgpu::SwapChain is named by the      *)
(* number of the replace_swapchain call that built it, 0 for the initial one. *)

MaxReplaces == 2
MaxRequests == 3

\* The mutex around (generation, swapchain): lock() goes on when free.
SwapLockAlwaysFree(l) == TRUE

SwapLockFree(l) == l = "free"

SwapInit ==
    /\ swapchain = [gen |-> 0, chain |-> 0]
    /\ swapLock = "free"
    /\ image_requested = FALSE
    /\ swapPc = "wait"
    /\ acquired = {}
    /\ userEvents = <<>>
    /\ parkToken = FALSE
    /\ loopPc = "idle"
    /\ rendered = {}
    /\ forgotten = {}
    /\ replaces = 0
    /\ requests = 0

\* request_image (lines 103-107), from the RedrawRequested handler.
RequestImage ==
    /\ loopPc = "idle"
    /\ requests < MaxRequests
    /\ image_requested' = TRUE
    /\ requests' = requests + 1
    /\ UNCHANGED <<swapchain, swapLock, swapPc, acquired, userEvents, parkToken,
                   loopPc, rendered, forgotten, replaces>>
    /\ UNCHANGED notSwapVars

\* Swapchain thread, lines 49-55: wait until an image is requested.
SwapWaitRequest ==
    /\ swapPc = "wait"
    /\ image_requested
    /\ image_requested' = FALSE
    /\ swapPc' = "acquire"
    /\ UNCHANGED <<swapchain, swapLock, acquired, userEvents, parkToken, loopPc,
                   rendered, forgotten, replaces, requests>>
    /\ UNCHANGED notSwapVars

\* Swapchain thread, lines 58-67: under the lock, the generation is read and
\* the current frame of the swapchain is acquired.
SwapAcquire ==
    /\ swapPc = "acquire"
    /\ SwapLockFree(swapLock)
    /\ acquired' = { [gen |-> swapchain.gen, chain |-> swapchain.chain] }
    /\ swapPc' = "send"
    /\ UNCHANGED <<swapchain, swapLock, image_requested, userEvents, parkToken,
                   loopPc, rendered, forgotten, replaces, requests>>
    /\ UNCHANGED notSwapVars

\* Swapchain thread, lines 68-70: event_proxy.send_event((gen, image)).
SwapSend ==
    /\ swapPc = "send"
    /\ userEvents' = Append(userEvents, CHOOSE f \in acquired : TRUE)
    /\ acquired' = {}
    /\ swapPc' = "park"
    /\ UNCHANGED <<swapchain, swapLock, image_requested, parkToken, loopPc,
                   rendered, forgotten, replaces, requests>>
    /\ UNCHANGED notSwapVars

\* Swapchain thread, line 73: thread::park() returns when the token is there
\* (and takes it); it may also return spuriously.
SwapPark ==
    /\ swapPc = "park"
    /\ \E spurious \in BOOLEAN : parkToken \/ spurious
    /\ parkToken' = FALSE
    /\ swapPc' = "wait"
    /\ UNCHANGED <<swapchain, swapLock, image_requested, acquired, userEvents,
                   loopPc, rendered, forgotten, replaces, requests>>
    /\ UNCHANGED notSwapVars

\* replace_swapchain, lines 95-96, from the Resized handler: the lock is
\* taken and the generation goes up.
ReplaceSwapchainBegin ==
    /\ loopPc = "idle"
    /\ replaces < MaxReplaces
    /\ SwapLockFree(swapLock)
    /\ swapLock' = "loop"
    /\ swapchain' = [swapchain EXCEPT !.gen = @ + 1]
    /\ loopPc' = "replace"
    /\ UNCHANGED <<image_requested, swapPc, acquired, userEvents, parkToken,
                   rendered, forgotten, replaces, requests>>
    /\ UNCHANGED notSwapVars

\* replace_swapchain, lines 100-101: the new swapchain is built and stored,
\* and the guard of the mutex is dropped.
ReplaceSwapchainEnd ==
    /\ loopPc = "replace"
    /\ swapchain' = [swapchain EXCEPT !.chain = replaces + 1]
    /\ swapLock' = "free"
    /\ loopPc' = "idle"
    /\ replaces' = replaces + 1
    /\ UNCHANGED <<image_requested, swapPc, acquired, userEvents, parkToken,
                   rendered, forgotten, requests>>
    /\ UNCHANGED notSwapVars

\* The UserEvent handler, lines 366-451: an outdated frame is forgotten, any
\* other is rendered to and dropped; both ways end with notify_presented.
HandleUserEvent ==
    /\ loopPc = "idle"
    /\ userEvents # <<>>
    /\ LET e == Head(userEvents)
           swap_generation == swapchain.gen
       IN IF e.gen # swap_generation
          THEN /\ forgotten' = forgotten \cup {e}
               /\ UNCHANGED rendered
          ELSE /\ rendered' = rendered \cup { [frame |-> e, current |-> swapchain] }
               /\ UNCHANGED forgotten
    /\ userEvents' = Tail(userEvents)
    /\ parkToken' = TRUE
    /\ UNCHANGED <<swapchain, swapLock, image_requested, swapPc, acquired, loopPc,
                   replaces, requests>>
    /\ UNCHANGED notSwapVars

SwapStep ==
    \/ RequestImage
    \/ SwapWaitRequest
    \/ SwapAcquire
    \/ SwapSend
    \/ SwapPark
    \/ ReplaceSwapchainBegin
    \/ ReplaceSwapchainEnd
    \/ HandleUserEvent

----------------------------------------------------------------------------
(* Specifications *)

Init == MixerInit /\ PlayerInit /\ ScopeInit /\ TickInit /\ CallInit /\ PhaseInit /\ SwapInit

InitCall == MixerInit /\ PlayerInit /\ ScopeInit /\ TickInit /\ CallInputs /\ PhaseInit /\ SwapInit

SpecMixer == Init /\ [][MixerStep]_vars

SpecPlayer == Init /\ [][PlayerStep]_vars

\* The audio thread goes on whenever it can: the device callback runs to its
\* end unless it waits for a Submission.  The mutex is handed to a thread that
\* waits for it once it is released often enough (parking_lot's Mutex is
\* eventually fair).
SpecPlayerFair ==
    /\ SpecPlayer
    /\ WF_vars(AudioNextSample)
    /\ WF_vars(AudioRecvWake)
    /\ WF_vars(AudioCallbackEnd)
    /\ SF_vars(RebuildMixerSwap)

SpecScope == Init /\ [][ScopeStep]_vars

SpecTick == Init /\ [][TickStep]_vars

InitStartup == MixerInit /\ PlayerInit /\ ScopeInit /\ TickStartup /\ CallInit /\ PhaseInit /\ SwapInit

SpecStartup == InitStartup /\ [][TickStep]_vars

SpecCall == InitCall /\ [][CallStep]_vars

SpecPhase == Init /\ [][PhaseStep]_vars

SpecSwap == Init /\ [][SwapStep]_vars

----------------------------------------------------------------------------
(* Properties of Submission and Mixer *)

SetMax(S) == CHOOSE x \in S : \A y \in S : y <= x

AllZero(v) == \A i \in 1..Len(v) : v[i] = 0

PadSum(a, b) ==
    [ i \in 1..(IF Len(a) >= Len(b) THEN Len(a) ELSE Len(b)) |->
        (IF i <= Len(a) THEN a[i] ELSE 0) + (IF i <= Len(b) THEN b[i] ELSE 0) ]

\* The rates Mixer::new is told about: none, resamplers starts as HashMap::new().
DeclaredRates == {}

\* C1: after Submission::add was called twice for a rate, with A then B, the
\* buffer of the rate is the elementwise sum of A and B, the shorter one padded
\* with zeros to the length of the longer one.
C1_AddIsPaddedSum ==
    \A l \in lastAdd :
        sub[l.rate].num_streams = 2 =>
            sub[l.rate].mixed = PadSum(l.before, l.samples)

\* C2: an unforced Mixer that has just received a Submission holding the set
\* of rates R has sample_rate = max(R), whatever the stream counts.
C2_RateIsMax ==
    (target_sample_rate = {} /\ consumed # <<>> /\ DOMAIN Last(consumed) # {})
        => sample_rate = SetMax(DOMAIN Last(consumed))

\* C2 (amended): an unforced Mixer has the rate 44100 until it receives a
\* Submission that holds a rate; from then on its rate is, of the last received
\* Submission that holds a rate, the rate with the most streams, the greatest
\* such rate when several have the most streams.
C2_RateIsMostStreamsThenMax ==
    target_sample_rate = {} =>
        LET rated == { i \in 1..Len(consumed) : DOMAIN consumed[i] # {} }
        IN IF rated = {} THEN sample_rate = DefaultRate
           ELSE LET s == consumed[SetMax(rated)]
                IN /\ sample_rate \in DOMAIN s
                   /\ \A q \in DOMAIN s :
                        \/ s[q].num_streams < s[sample_rate].num_streams
                        \/ /\ s[q].num_streams = s[sample_rate].num_streams
                           /\ q <= sample_rate

C2_Witness ==
    /\ target_sample_rate = {}
    /\ consumed # <<>>
    /\ Cardinality(DOMAIN Last(consumed)) = 2
    /\ sample_rate # SetMax(DOMAIN Last(consumed))

\* C3: a Mixer whose rate is R and that has received one Submission, with the
\* samples X at rate R and nothing but zeros at the other rates, returns X[1],
\* X[2], ... unchanged from the receiving call on.
C3_Passthrough ==
    ( /\ Len(consumed) = 1
      /\ sample_rate \in DOMAIN consumed[1]
      /\ \A q \in DOMAIN consumed[1] \ {sample_rate} : AllZero(consumed[1][q].mixed) )
    => \A i \in 1..Len(outsSince) :
         /\ i <= Len(consumed[1][sample_rate].mixed)
         /\ outsSince[i].den = sample_rate
         /\ outsSince[i].num = consumed[1][sample_rate].mixed[i] * outsSince[i].den

C3_Witness ==
    /\ Len(consumed) = 1
    /\ sample_rate \in DOMAIN consumed[1]
    /\ consumed[1][sample_rate].mixed = <<1, 2>>
    /\ \E q \in DOMAIN consumed[1] \ {sample_rate} : AllZero(consumed[1][q].mixed)
    /\ \A q \in DOMAIN consumed[1] \ {sample_rate} : AllZero(consumed[1][q].mixed)
    /\ Len(outsSince) = 2

\* C4: pulling a sample from a resampler whose queue is empty never panics.
C4_NoPanic == ~panicked

C20_Held ==
    IF chan = <<>> THEN resamplers
    ELSE LET s  == Head(chan)
             rt == Retarget(sample_rate, target_sample_rate, resamplers, s)
         IN PushSubmission(CreateResamplers(rt.rs, s, rt.rate), s)

\* C20: an output sample of Mixer::next is the plain sum of one sample pulled
\* from each resampler the Mixer holds, and each of them has been advanced by
\* exactly that one pull; nothing is divided by the number of rates or scaled
\* by num_streams.
C20_PlainSum ==
    [][ (pulls' = pulls + 1 /\ ~panicked') =>
          /\ DOMAIN resamplers' = DOMAIN C20_Held
          /\ \A r \in DOMAIN C20_Held :
                resamplers'[r] = ResamplerNext(C20_Held[r]).r
          /\ Last(outsSince').num =
                SumOver(DOMAIN C20_Held,
                        [ r \in DOMAIN C20_Held |-> ResamplerNext(C20_Held[r]).num ])
      ]_vars

\* A Mixer that holds two resamplers has produced a second sample, not zero,
\* since it took in its last Submission.
C20_Witness ==
    /\ ~panicked
    /\ Cardinality(DOMAIN resamplers) = 2
    /\ Len(outsSince) >= 2
    /\ Last(outsSince).num # 0
    /\ \E r \in DOMAIN consumed[Len(consumed)] :
          consumed[Len(consumed)][r].num_streams >= 2

C25_ResamplersTargetCurrentRate ==
    /\ \A r \in DOMAIN resamplers :
          /\ resamplers[r].from = r
          /\ resamplers[r].to = sample_rate
    /\ outsSince # <<>> => Last(outsSince).den = sample_rate

\* An unforced Mixer took the rate 48000 from its first Submission and the
\* rate 22050 from its second, and has mixed a sample since.
C25_Witness ==
    /\ target_sample_rate = {}
    /\ ~panicked
    /\ Len(consumed) = 2
    /\ DOMAIN consumed[1] = {48000}
    /\ sample_rate = 22050
    /\ DOMAIN resamplers # {}
    /\ outsSince # <<>>

\* C26: in a Mixer without a forced target rate, the samples a resampler
\* still has queued when Mixer::next consumes the next Submission stay queued:
\* after the call the resampler is still held, and its queue is the old queue
\* followed by the new samples of its rate, less what the one pull of the call
\* took from the front.
C26_QueuedSamplesKept ==
    [][ (target_sample_rate = {} /\ chan # <<>> /\ pulls' = pulls + 1 /\ ~panicked') =>
          \A r \in DOMAIN resamplers :
              resamplers[r].queue # <<>> =>
                  /\ r \in DOMAIN resamplers'
                  /\ resamplers'[r].queue =
                        ResamplerNext(
                            PushAll(resamplers[r],
                                    IF r \in DOMAIN Head(chan)
                                    THEN Head(chan)[r].mixed ELSE <<>>)).r.queue
      ]_vars

----------------------------------------------------------------------------
(* Properties of Player *)

\* C5: the Submissions accepted by Player::submit and not yet received by the
\* audio thread never pile up: at most one is pending, after Player::new and
\* after any number of rebuild_mixer calls.
C5_PendingBounded ==
    \A c \in ChannelIds : Len(channels[c].q) <= 1

\* C6: the audio callback never waits for a Submission.
C6_CallbackNeverWaits == audioPc # "recv"

\* C7: while a callback runs, the stream it pulls from is the one it found when
\* it took the lock (every sample comes wholly from one Mixer), and a
\* Submission passed to submit after the n-th rebuild_mixer has returned (and
\* before the next one) is received by the stream of the n-th rebuild only.
C7_SwapIsAtomic ==
    /\ audioPc # "idle" => mixer_stream.rx = heldStream
    /\ \A rec \in received : rec.stream = rec.epoch

C7_Witness ==
    /\ audioPc = "fill"
    /\ rebuilds >= 1
    /\ \E rec \in received : rec.stream = 0
    /\ \E rec \in received : rec.stream >= 1

\* C27: Player::rebuild_mixer always returns: a frame thread that has begun
\* rebuild_mixer gets the mixer lock and leaves the call, whatever the audio
\* callback is doing, also when the callback holds the lock and waits on the
\* submission channel.
C27_RebuildReturns == (framePc = "rebuild") ~> (framePc = "idle")

\* rebuild_mixer has replaced the Sender and is about to take the lock, which
\* the audio callback holds while it waits for a Submission.
C27_Witness ==
    /\ framePc = "rebuild"
    /\ lock = "audio"
    /\ audioPc = "recv"

----------------------------------------------------------------------------
(* Properties of Scope *)

\* C10: after any number of Scope::submit calls with no process() in between,
\* the mailbox holds exactly one Submission, the last one submitted; the
\* Submissions submitted before it and not taken are gone from the mailbox and
\* are never mixed.
C10_MailboxHoldsLast ==
    /\ sinceProcess > 0 => slot = {scopeSubmits - 1}
    /\ \A s \in overwritten :
          /\ s \notin slot
          /\ \A i \in 1..Len(scopeMixed) : scopeMixed[i] # s

C10_Witness ==
    /\ sinceProcess >= 2
    /\ slot = {scopeSubmits - 1}
    /\ Cardinality(overwritten) >= 2
    /\ scopeMixed # <<>>

\* C11: a Submission of the mailbox is taken by exactly one process(): right
\* after a process() the mailbox is empty, no Submission is mixed twice, and
\* a Submission that was mixed is not in the mailbox any more.
C11_TakenOnce ==
    /\ sinceProcess = 0 => slot = {}
    /\ \A i, j \in 1..Len(scopeMixed) : scopeMixed[i] = scopeMixed[j] => i = j
    /\ \A i \in 1..Len(scopeMixed) : scopeMixed[i] \notin slot

\* A process() took a Submission and the next process(), with no submit in
\* between, found the mailbox empty.
C11_Witness ==
    /\ Len(scopeMixed) = 1
    /\ scopePanicked
    /\ scopeSubmits = 1

RoundedSamples(rate, ms) == (2 * rate * ms + 1000) \div 2000

\* C14: the slice Scope::output returns after a process() has exactly
\* round(window_size * sample rate) samples, for every window size, rate
\* and center.
C14_OutputLenIsRound ==
    outLen # -1 => outLen = RoundedSamples(scope_sample_rate, window_size)

----------------------------------------------------------------------------
(* Properties of the frame tick *)

\* C15: within one tick, a scope that received a Submission has been
\* processed before the renderer reads its output(), and process() is only
\* called on a scope whose mailbox was filled in that tick.
C15_ProcessBeforeOutput ==
    /\ \A n \in readIn : n \in submittedIn => n \in processedIn
    /\ processedIn \subseteq submittedIn
    /\ \A n \in TickScopes : mailboxes[n] # {} => n \in submittedIn \ processedIn

\* The second tick of a run has submitted to, processed and rendered both
\* scopes.
C15_Witness ==
    /\ ticks >= 2
    /\ submittedIn = TickScopes
    /\ processedIn = TickScopes
    /\ readIn = TickScopes

\* C19: a tick in which chunk_at failed for a source does not panic; the
\* source counts as silent and the tick goes on to route the other sources
\* and to submit and process the scopes.
C19_FailedReadIsSilence ==
    failedReads # {} => ~tickPanicked

\* The loaded sources the running tick has read and routed.
RoutedSources ==
    { loaded_sources[i] : i \in 1..Len(loaded_sources) } \ { todoSources[i] : i \in 1..Len(todoSources) }

\* C22: a connection to a scope that does not exist is a recoverable warning.
\* While a tick routes its sources, the name of every such connection of a
\* source already read is logged, no Submission exists for it, the Submission
\* of every scope holds exactly the sources read so far that are connected to
\* it, the master Submission holds those connected to the master (when
\* playing), and the tick has not panicked unless a read failed.
C22_UnknownTargetIsWarning ==
    (tickPc \in {"read", "submit", "process"}) =>
        /\ DOMAIN scope_submissions = TickScopes
        /\ \A n \in TickScopes :
              scope_submissions[n] =
                { s \in RoutedSources : [target |-> "Scope", name |-> n] \in SourceConnections(s) }
        /\ master_sub =
              { s \in RoutedSources :
                  playing /\ \E c \in SourceConnections(s) : c.target = "Master" }
        /\ \A s \in RoutedSources : \A c \in SourceConnections(s) :
              (c.target = "Scope" /\ c.name \notin TickScopes) => c.name \in warned
        /\ tickPanicked => failedReads # {}

\* Both sources have been read; each has a connection to a scope that does
\* not exist, and the connections to the scopes "a" and "b" were routed.
C22_Witness ==
    /\ tickPc = "submit"
    /\ ~tickPanicked
    /\ warned = {"gone", "ghost"}
    /\ scope_submissions["a"] = {1}
    /\ scope_submissions["b"] = {2}
    /\ master_sub = {1}

\* C24: by default the Scope::process calls of a frame run sequentially: as
\* long as the user has changed nothing in the interface, a tick that
\* dispatches the process calls (line 575) finds multithreaded_centering off.
C24_SequentialByDefault ==
    (tickPc = "process" /\ uiEvents = 0) => ~multithreaded_centering

\* C28: in a tick where playback is paused no source is added to the master
\* Submission, also when the tick reads the sources to reprocess the scopes,
\* and the end of the tick submits the master Submission, empty, to the
\* Player.
C28_PausedMasterEmpty ==
    [][ ~playing =>
          /\ tickPc' # "idle" => master_sub' = {}
          /\ (tickPc = "finish" /\ tickPc' = "idle") =>
                masterSubmits' = Append(masterSubmits, {})
      ]_vars

\* The first tick ran paused and reprocessed both scopes from the sources,
\* one of which is connected to the master; it submitted an empty master
\* Submission.
C28_Witness ==
    /\ ticks = 1
    /\ tickPc = "idle"
    /\ ~playing
    /\ processedIn = TickScopes
    /\ scope_submissions["a"] = {1}
    /\ masterSubmits = << {} >>

\* C29: the step that ends a tick sets playing to false when every loaded
\* source is exhausted (none loaded counts as all exhausted) and leaves it
\* alone otherwise, and then advances the frame counter by exactly one if
\* playing is true, and not at all if it is false; no other step of a tick
\* changes the counter or playing, only the user does.
C29_FrameFollowsPlaying ==
    [][ LET allDone == \A i \in 1..Len(loaded_sources) :
                          frame > SourceFrames(loaded_sources[i])
        IN IF tickPc = "finish" /\ tickPc' = "idle"
           THEN /\ playing' = (playing /\ ~allDone)
                /\ frame' = IF playing' THEN frame + 1 ELSE frame
           ELSE uiEvents' = uiEvents => (frame' = frame /\ playing' = playing)
      ]_vars

\* With no source loaded the first tick paused playback; the user resumed, and
\* the second tick paused it again: the counter never left 0.
C29_Witness ==
    /\ loaded_sources = <<>>
    /\ ticks = 2
    /\ tickPc = "idle"
    /\ uiEvents = 1
    /\ Len(masterSubmits) = 2
    /\ ~playing
    /\ frame = 0

----------------------------------------------------------------------------
(* Properties of calculate_offset *)

\* The range the loop of ZeroCrossing::calculate_offset scans: start..end.
ZcStart == window_len \div 2

ZcLimit == Min(ZcStart + Samples(call_sample_rate, zc_trigger_width), Len(call_data))

ZcCrossings == { i \in ZcStart..(ZcLimit - 2) : CrossingAt(call_data, i) }

----------------------------------------------------------------------------
(* Properties of FundamentalPhase *)

\* C23: two calls of FundamentalPhase::center with identical data and search
\* range return the same index,
\* whatever calls were made on the same value in between.
C23_SameArgsSameIndex ==
    \A i, j \in 1..Len(phaseCalls) :
        phaseCalls[i].args = phaseCalls[j].args =>
            phaseCalls[i].center = phaseCalls[j].center

\* The first and the third call have the same arguments; the call between
\* them had a longer search range and other data, so that every working
\* buffer was grown and shrunk again, and ended on another period.
C23_Witness ==
    /\ Len(phaseCalls) = 3
    /\ ~phasePanicked
    /\ phaseCalls[1].args = phaseCalls[3].args
    /\ phaseCalls[2].args.hi > phaseCalls[1].args.hi
    /\ phaseCalls[2].args.samples # phaseCalls[1].args.samples
    /\ phaseCalls[1].center # phaseCalls[2].center
    /\ buffers.yin = 2
    /\ 6 \in planners.forward

----------------------------------------------------------------------------
(* Properties of AsyncSwapchain *)

\* C30: a frame is rendered to only if it was acquired from the swapchain
\* that is current when it is handled, and with the current generation; the
\* handler of a frame acquired from a swapchain that has since been replaced
\* renders nothing, gives the frame up and unparks the swapchain thread.
C30_OutdatedFrameForgotten ==
    /\ \A r \in rendered : r.frame = r.current
    /\ [][ (userEvents # <<>> /\ userEvents' = Tail(userEvents)
               /\ Head(userEvents).chain # swapchain.chain) =>
             /\ rendered' = rendered
             /\ Head(userEvents) \in forgotten'
             /\ parkToken'
         ]_vars

\* A frame of the first swapchain was forgotten after a resize, and a frame of
\* the swapchain built by the resize was rendered to.
C30_Witness ==
    /\ [gen |-> 0, chain |-> 0] \in forgotten
    /\ \E r \in rendered : r.frame.chain = 1
    /\ parkToken

====
